---- MODULE Spec2Model ----
(***************************************************************************)
(* The licensing server of maya-verification: the /check decision policy,  *)
(* the admin endpoints /issue, /renew and /reset_devices (server.py) and   *)
(* the license store with its expiry scanner (licenses_db.py).             *)
(*                                                                         *)
(* Time is counted in ticks, TicksPerDay ticks to a day, so that instants  *)
(* inside one UTC day are distinguishable.  Text that the code strips is   *)
(* a sequence of chunks, the chunk " " standing for white space.           *)
(***************************************************************************)
EXTENDS Integers, Sequences, FiniteSets, Bags, TLC

VARIABLES
    now,        \* the wall clock, in ticks
    env,        \* the environment variables of the server process
    licenses,   \* table licenses: the row of id i is licenses[i]
    devices,    \* table license_devices, a bag of rows
    req,        \* the request last served
    resp,       \* the response to it
    hist,       \* the requests and responses of a recorded session
    client,     \* a run of check_online in the client (verifier.py)
    inflight    \* the /check requests that are between two queries

vars == <<now, env, licenses, devices, req, resp, hist, client, inflight>>

----------------------------------------------------------------------------
(* Bounds of the model *)

TicksPerDay == 2

\* requests of a recorded session
MaxSession == 6

\* runs of the scanner in a recorded sequence of scans
MaxScans == 3

\* /check requests served at the same time
MaxInflight == 2

----------------------------------------------------------------------------
(* Constants of the program *)

MAX_DEVICES == 2

LICENSE_DAYS == 365

WARN_DAYS == 7

CODE_TRIES == 10

TTL_BAD_JSON == 5

TTL_KILL == 30

TTL_ALLOW == 60

TTL_DENY == 3600

ALLOWED_TOKENS == {"WS"}

Days(n) == n * TicksPerDay

\* timedelta.days of a non-negative difference
DaysOf(delta) == delta \div TicksPerDay

\* datetime.date() in UTC, as a day number
DateOf(t) == t \div TicksPerDay

----------------------------------------------------------------------------
(* Text: str.strip() and str.upper() *)

RECURSIVE LStrip(_)
LStrip(r) == IF r # <<>> /\ Head(r) = " " THEN LStrip(Tail(r)) ELSE r

RECURSIVE RStrip(_)
RStrip(r) ==
    IF r # <<>> /\ r[Len(r)] = " " THEN RStrip(SubSeq(r, 1, Len(r) - 1)) ELSE r

\* the stripped text; the inputs of the model hold at most one word
Strip(r) == LET s == RStrip(LStrip(r)) IN IF s = <<>> THEN "" ELSE s[1]

Upper(s) ==
    CASE s = "aaaa" -> "AAAA"
      [] s = "bbbb" -> "BBBB"
      [] OTHER -> s

----------------------------------------------------------------------------
(* Inputs *)

\* what generate_license_code can return
Codes == {"AAAA", "BBBB"}

\* the draws of one create_license call: k-1 times c1, then c2
DrawSeqs(codes) ==
    { [i \in 1..CODE_TRIES |-> IF i < k THEN c1 ELSE c2] :
        k \in {1, CODE_TRIES}, c1 \in codes, c2 \in codes }

\* request bodies that carry no fields: not JSON, or JSON that is no object
BadBodies == {"unparseable", "not_object"}

RawTokens == { <<>>, <<"WS", " ">>, <<"AAAA">>, <<" ", "BBBB", " ">> }

RawMachines == { <<>>, <<"m1">>, <<"m2", " ">>, <<"m3">> }

RawVersions == { <<>>, <<"v1">>, <<"v2">> }

RawCodes == { <<>>, <<" ", "aaaa">>, <<"BBBB">> }

AdminKeys == { "", "k" }

WebhookOutcomes == { "ok", "urlerror", "raise" }

\* the instants the wall clock is read at
Instants == { 0, Days(LICENSE_DAYS), Days(LICENSE_DAYS) + 1 }

\* renewals are followed up to this expiry
Horizon == Days(LICENSE_DAYS) + Days(LICENSE_DAYS)

\* the environments the server process can be started in
Env(kill, version, blocked, key) ==
    [ KILL_SWITCH |-> kill, APP_VERSION |-> version,
      BLOCKED_MACHINES |-> blocked, ADMIN_API_KEY |-> key ]

Envs ==
    { Env(<<>>, <<>>, <<>>, "k"),
      Env(<<"1", " ">>, <<>>, <<>>, "k"),
      Env(<<>>, <<"v1">>, << <<" ", "m3">>, <<" ">> >>, "k"),
      Env(<<>>, <<>>, <<>>, "") }

----------------------------------------------------------------------------
(* Responses *)

NoResp ==
    [ op |-> "none", status |-> 0, allow |-> FALSE, reason |-> "", ttl |-> 0,
      code |-> "", removed |-> 0, old_expires |-> 0, new_expires |-> 0,
      expires_soon |-> 0, expired |-> 0, events |-> {} ]

\* the operation last served, with the token or license code and the
\* machine_id the handler worked on
NoReq == [ op |-> "none", token |-> "", machine_id |-> "" ]

Verdict(allow, reason, ttl) ==
    [ NoResp EXCEPT !.op = "check", !.status = 200, !.allow = allow,
                    !.reason = reason, !.ttl = ttl ]

HttpError(op, status, detail) ==
    [ NoResp EXCEPT !.op = op, !.status = status, !.reason = detail ]

----------------------------------------------------------------------------
(* The store *)

BagFilter(B, P(_)) == [ e \in { x \in DOMAIN B : P(x) } |-> B[e] ]

DevicesOf(devs, lid) == BagFilter(devs, LAMBDA d : d.license_id = lid)

CountDevices(devs, lid) == BagCardinality(DevicesOf(devs, lid))

\* the lookup without the license filter
MatchingAnyLicense(devs, lid, m) == { d \in DOMAIN devs : d.machine_id = m }

MatchingDevices(devs, lid, m) ==
    { d \in DOMAIN devs : d.license_id = lid /\ d.machine_id = m }

\* db.query(License).filter(License.code == code).first(); 0 for None
FindLicense(lics, code) ==
    IF \E i \in 1..Len(lics) : lics[i].code = code
    THEN CHOOSE i \in 1..Len(lics) :
            /\ lics[i].code = code
            /\ \A j \in 1..Len(lics) : lics[j].code = code => i <= j
    ELSE 0

\* the delete without a filter
DeleteAllDevices(devs, lid) == EmptyBag

\* the delete with the filter inverted
DeleteOtherDevices(devs, lid) == BagFilter(devs, LAMBDA d : d.license_id = lid)

DeleteDevices(devs, lid) == BagFilter(devs, LAMBDA d : d.license_id # lid)

----------------------------------------------------------------------------
(* The environment, as /check and require_admin_key read it *)

KillSwitch == IF env.KILL_SWITCH = <<>> THEN "0" ELSE Strip(env.KILL_SWITCH)

AppVersion == Strip(env.APP_VERSION)

\* the blocked list with its entries left unstripped
BlockedUnstripped ==
    { env.BLOCKED_MACHINES[i][1] :
        i \in { j \in 1..Len(env.BLOCKED_MACHINES) : env.BLOCKED_MACHINES[j] # <<>> } }

Blocked ==
    { Strip(env.BLOCKED_MACHINES[i]) :
        i \in { j \in 1..Len(env.BLOCKED_MACHINES) :
                    Strip(env.BLOCKED_MACHINES[j]) # "" } }

KillSwitchOn == KillSwitch = "1"

MachineBlocked(machine_id) == machine_id # "" /\ machine_id \in Blocked

VersionRule(version) ==
    AppVersion # "" /\ version # "" /\ version # AppVersion

StaticToken(token) == token # "" /\ token \in ALLOWED_TOKENS

\* the key compared without the test for an unset secret
AdminKeyMismatch(key) == key # env.ADMIN_API_KEY

AdminKeyRejected(key) == env.ADMIN_API_KEY = "" \/ key # env.ADMIN_API_KEY

----------------------------------------------------------------------------
(* POST /check *)

\* every license taken for expired
LicenseUnusableAlways(lic, t) == TRUE

\* expiry tested with > for >=
LicenseUnusableAfter(lic, t) == (~lic.active) \/ (t > lic.expires_at)

LicenseUnusable(lic, t) == (~lic.active) \/ (t >= lic.expires_at)

\* the quota never tested
QuotaReachedNever(current_devices) == FALSE

\* the quota tested with > for >=
QuotaReachedAbove(current_devices) == current_devices > MAX_DEVICES

QuotaReached(current_devices) == current_devices >= MAX_DEVICES

\* every device of the license updated
TouchDeviceAll(devs, d, t) ==
    SetToBag({ [x EXCEPT !.last_seen =
                    IF x.license_id = d.license_id THEN t ELSE @] :
                x \in DOMAIN devs })

\* a known machine inserted again instead of updated
TouchDeviceInsert(devs, d, t) ==
    devs (+) SetToBag({[d EXCEPT !.last_seen = t]})

\* a known machine updated in both timestamps
TouchDeviceBoth(devs, d, t) ==
    (devs (-) SetToBag({d}))
        (+) SetToBag({[d EXCEPT !.first_seen = t, !.last_seen = t]})

TouchDevice(devs, d, t) ==
    (devs (-) SetToBag({d})) (+) SetToBag({[d EXCEPT !.last_seen = t]})

NewDevice(lid, machine_id, t) ==
    [ license_id |-> lid, machine_id |-> machine_id,
      first_seen |-> t, last_seen |-> t ]

\* the table without uq_license_machine
UniqueViolationNever(devs, row) == FALSE

\* uq_license_machine
UniqueViolation(devs, row) ==
    MatchingDevices(devs, row.license_id, row.machine_id) # {}

ExpiresSoon(lic, t) == DaysOf(lic.expires_at - t) <= WARN_DAYS

AllowVerdict(lic, t) ==
    IF ExpiresSoon(lic, t)
    THEN Verdict(TRUE, "LICENSE_EXPIRES_SOON", TTL_ALLOW)
    ELSE Verdict(TRUE, "OK", TTL_ALLOW)

\* the device step of /check for a usable license and a non-empty machine_id
BindDevice(lid, machine_id) ==
    LET lic == licenses[lid]
        found == MatchingDevices(devices, lid, machine_id)
        row == NewDevice(lid, machine_id, now)
    IN  IF found # {}
        THEN [ resp |-> AllowVerdict(lic, now),
               licenses |-> licenses,
               devices |-> TouchDevice(devices, CHOOSE d \in found : TRUE, now) ]
        ELSE IF QuotaReached(CountDevices(devices, lid))
        THEN [ resp |-> Verdict(FALSE, "Maximum number of devices", TTL_DENY),
               licenses |-> licenses, devices |-> devices ]
        ELSE IF UniqueViolation(devices, row)
        THEN [ resp |-> HttpError("check", 500, "IntegrityError"),
               licenses |-> licenses, devices |-> devices ]
        ELSE [ resp |-> AllowVerdict(lic, now),
               licenses |-> licenses,
               devices |-> devices (+) SetToBag({row}) ]

\* the license step of /check for a non-empty token outside the allow-list
CheckLicense(token, machine_id) ==
    LET lid == FindLicense(licenses, token)
        keep(r) == [ resp |-> r, licenses |-> licenses, devices |-> devices ]
    IN  IF lid = 0
        THEN keep(Verdict(FALSE, "Invalid token", TTL_DENY))
        ELSE IF LicenseUnusable(licenses[lid], now)
        THEN [ resp |-> Verdict(FALSE, "License expired", TTL_DENY),
               licenses |-> [licenses EXCEPT ![lid].active = FALSE],
               devices |-> devices ]
        ELSE IF machine_id = ""
        THEN keep(Verdict(FALSE, "Missing machine_id", TTL_DENY))
        ELSE BindDevice(lid, machine_id)

check(body, token, machine_id, version) ==
    LET keep(r) == [ resp |-> r, licenses |-> licenses, devices |-> devices ]
    IN  IF body = "unparseable"
        THEN keep(Verdict(FALSE, "BAD_JSON", TTL_BAD_JSON))
        ELSE IF body = "not_object"
        THEN keep(HttpError("check", 500, "AttributeError"))
        ELSE IF KillSwitchOn
        THEN keep(Verdict(FALSE, "Temporarily disabled by admin.", TTL_KILL))
        ELSE IF MachineBlocked(machine_id)
        THEN keep(Verdict(FALSE, "Machine blocked", TTL_DENY))
        ELSE IF VersionRule(version)
        THEN keep(Verdict(FALSE, "Update required.", TTL_DENY))
        ELSE IF StaticToken(token)
        THEN keep(Verdict(TRUE, "OK", TTL_ALLOW))
        ELSE IF token = ""
        THEN keep(Verdict(FALSE, "Missing token.", TTL_DENY))
        ELSE CheckLicense(token, machine_id)

Check(body, rt, rm, rv) ==
    LET isobj == body = "object"
        token == IF isobj THEN Strip(rt) ELSE ""
        machine_id == IF isobj THEN Strip(rm) ELSE ""
        version == IF isobj THEN Strip(rv) ELSE ""
    IN  /\ req' = [ NoReq EXCEPT !.op = "check", !.token = token,
                                 !.machine_id = machine_id ]
        /\ UNCHANGED <<now, env>>
        /\ \E out \in {check(body, token, machine_id, version)} :
                /\ resp' = out.resp
                /\ licenses' = out.licenses
                /\ devices' = out.devices

----------------------------------------------------------------------------
(* POST /issue *)

\* the first generated code taken without looking it up
FirstDraw(draws, i, lics) == i

RECURSIVE FirstFree(_, _, _)
\* the first try of create_license whose code is not in the store; 0 if none
FirstFree(draws, i, lics) ==
    IF i > CODE_TRIES THEN 0
    ELSE IF FindLicense(lics, draws[i]) = 0 THEN i
    ELSE FirstFree(draws, i + 1, lics)

create_license(draws) ==
    LET i == FirstFree(draws, 1, licenses)
        lic == [ code |-> draws[i], expires_at |-> now + Days(LICENSE_DAYS),
                 active |-> TRUE ]
    IN  IF i = 0
        THEN [ resp |-> HttpError("issue", 500, "RuntimeError"),
               licenses |-> licenses ]
        ELSE [ resp |-> [ NoResp EXCEPT !.op = "issue", !.status = 200,
                                        !.code = lic.code,
                                        !.new_expires = lic.expires_at ],
               licenses |-> Append(licenses, lic) ]

Issue(key, draws) ==
    \E out \in { IF AdminKeyRejected(key)
                  THEN [ resp |-> HttpError("issue", 403, "Forbidden"),
                         licenses |-> licenses ]
                  ELSE create_license(draws) } :
        /\ req' = [ NoReq EXCEPT !.op = "issue" ]
        /\ resp' = out.resp
        /\ licenses' = out.licenses
        /\ UNCHANGED <<now, env, devices>>

----------------------------------------------------------------------------
(* POST /renew and POST /reset_devices *)

\* the renewal counted from now in every case
BaselineNow(old_expires, t) == t

Baseline(old_expires, t) == IF old_expires > t THEN old_expires ELSE t

renew_license(key, code) ==
    LET lid == FindLicense(licenses, code)
        keep(r) == [ resp |-> r, licenses |-> licenses, devices |-> devices ]
    IN  IF AdminKeyRejected(key)
        THEN keep(HttpError("renew", 403, "Forbidden"))
        ELSE IF code = ""
        THEN keep(HttpError("renew", 400, "license_code is required"))
        ELSE IF lid = 0
        THEN keep(HttpError("renew", 404, "License not found"))
        ELSE LET old == licenses[lid].expires_at
                 new == Baseline(old, now) + Days(LICENSE_DAYS)
             IN  [ resp |-> [ NoResp EXCEPT !.op = "renew", !.status = 200,
                                            !.code = code, !.old_expires = old,
                                            !.new_expires = new ],
                   licenses |-> [licenses EXCEPT ![lid].expires_at = new,
                                                 ![lid].active = TRUE],
                   devices |-> DeleteDevices(devices, lid) ]

Renewable(code) ==
    LET lid == FindLicense(licenses, code)
    IN  lid # 0 => licenses[lid].expires_at <= Horizon

Renew(key, rc) ==
    LET code == Upper(Strip(rc))
    IN  \E out \in {renew_license(key, code)} :
        /\ Renewable(code)
        /\ req' = [ NoReq EXCEPT !.op = "renew", !.token = code ]
        /\ resp' = out.resp
        /\ licenses' = out.licenses
        /\ devices' = out.devices
        /\ UNCHANGED <<now, env>>

reset_devices(key, code) ==
    LET lid == FindLicense(licenses, code)
    IN  IF AdminKeyRejected(key)
        THEN [ resp |-> HttpError("reset_devices", 403, "Forbidden"),
               devices |-> devices ]
        ELSE IF code = ""
        THEN [ resp |-> HttpError("reset_devices", 400, "license_code is required"),
               devices |-> devices ]
        ELSE IF lid = 0
        THEN [ resp |-> HttpError("reset_devices", 404, "License not found"),
               devices |-> devices ]
        ELSE [ resp |-> [ NoResp EXCEPT !.op = "reset_devices", !.status = 200,
                                        !.code = code,
                                        !.removed = CountDevices(devices, lid) ],
               devices |-> DeleteDevices(devices, lid) ]

ResetDevices(key, rc) ==
    LET code == Upper(Strip(rc))
    IN  \E out \in {reset_devices(key, code)} :
        /\ req' = [ NoReq EXCEPT !.op = "reset_devices", !.token = code ]
        /\ resp' = out.resp
        /\ devices' = out.devices
        /\ UNCHANGED <<now, env, licenses>>

----------------------------------------------------------------------------
(* scan_licenses_and_notify(db, now) *)

Cutoff(t) == Days(DateOf(t) + WARN_DAYS) + Days(1)

Candidates(lics, t) ==
    { i \in 1..Len(lics) : lics[i].active /\ lics[i].expires_at <= Cutoff(t) }

\* the expiry tested with < for <=
ScanExpiredBefore(lics, t) ==
    { i \in Candidates(lics, t) : lics[i].expires_at < t }

ScanExpired(lics, t) == { i \in Candidates(lics, t) : lics[i].expires_at <= t }

ScanSoon(lics, t) ==
    { i \in Candidates(lics, t) \ ScanExpired(lics, t) :
        DateOf(lics[i].expires_at) = DateOf(t) + WARN_DAYS }

ScanEvents(lics, t) ==
    { <<i, "expired">> : i \in ScanExpired(lics, t) }
        \cup { <<i, "expires_soon">> : i \in ScanSoon(lics, t) }

\* hook[i]: how the webhook POST for license i ends
scan_licenses_and_notify(hook) ==
    LET notified == ScanExpired(licenses, now) \cup ScanSoon(licenses, now)
        raising == { i \in notified : hook[i] = "raise" }
        first == CHOOSE i \in raising : \A j \in raising : i <= j
    IN  IF raising # {}
        THEN [ resp |-> [ HttpError("scan", 500, "Exception") EXCEPT
                            !.events = { e \in ScanEvents(licenses, now) :
                                            e[1] <= first } ],
               licenses |-> licenses ]
        ELSE [ resp |-> [ NoResp EXCEPT
                            !.op = "scan", !.status = 200,
                            !.expires_soon = Cardinality(ScanSoon(licenses, now)),
                            !.expired = Cardinality(ScanExpired(licenses, now)),
                            !.events = ScanEvents(licenses, now) ],
               licenses |-> [ i \in 1..Len(licenses) |->
                                IF i \in ScanExpired(licenses, now)
                                THEN [licenses[i] EXCEPT !.active = FALSE]
                                ELSE licenses[i] ] ]

Scan(hook) ==
    \E out \in {scan_licenses_and_notify(hook)} :
        /\ req' = [ NoReq EXCEPT !.op = "scan" ]
        /\ resp' = out.resp
        /\ licenses' = out.licenses
        /\ UNCHANGED <<now, env, devices>>

----------------------------------------------------------------------------
(* The wall clock *)

Advance(t) ==
    /\ t > now
    /\ now' = t
    /\ UNCHANGED <<env, licenses, devices, req, resp>>

----------------------------------------------------------------------------

(* The client: check_online(server_url, token, version) of verifier.py.
   Times are in tenths of a second. *)

FAST ==
    [ CONNECT |-> 20, READ |-> 30, WARMUP_TRIES |-> 1, CHECK_TRIES |-> 1,
      BACKOFF |-> 4, TOTAL_DEADLINE |-> 60 ]

BALANCED ==
    [ CONNECT |-> 30, READ |-> 50, WARMUP_TRIES |-> 2, CHECK_TRIES |-> 2,
      BACKOFF |-> 8, TOTAL_DEADLINE |-> 120 ]

RENDER_FRIENDLY ==
    [ CONNECT |-> 40, READ |-> 80, WARMUP_TRIES |-> 3, CHECK_TRIES |-> 2,
      BACKOFF |-> 11, TOTAL_DEADLINE |-> 200 ]

\* CFG, chosen by MAYA_VERIFY_MODE
Modes == { FAST, BALANCED, RENDER_FRIENDLY }

\* the ttl of every verdict the client makes up itself
CLIENT_TTL == 5

Min(a, b) == IF a < b THEN a ELSE b

Pow2(i) == IF i = 0 THEN 1 ELSE IF i = 1 THEN 2 ELSE 4

_deadline_remaining(cfg, t) ==
    IF cfg.TOTAL_DEADLINE - t > 0 THEN cfg.TOTAL_DEADLINE - t ELSE 0

\* sleep_s after attempt i that ended at t
SleepAfter(cfg, i, t) == Min(cfg.BACKOFF * Pow2(i), _deadline_remaining(cfg, t))

\* how long one request can take: an immediate answer or failure, the
\* connect timeout, the read timeout, a slow connect followed by a slow read
Durations(cfg) == { 1, cfg.CONNECT, cfg.READ, cfg.CONNECT + cfg.READ }

\* what sess.get(/health) does
HealthOutcomes == { "responded", "exception" }

Reply(kind, allow, reason, ttl) ==
    [ kind |-> kind, allow |-> allow, reason |-> reason, ttl |-> ttl ]

\* what sess.post(/check) brings back: no response, a status other than
\* 200, and bodies of a 200: no JSON, JSON that is no object, an object
\* whose ttl_seconds int() refuses, an object whose allow is the string
\* "false", the empty object, and the verdicts of the server
Replies ==
    { Reply(k, FALSE, "", 0) :
        k \in { "network_error", "non_200", "invalid_json", "not_object",
                "bad_ttl", "no_fields" } }
    \cup { Reply("string_allow", FALSE, "Invalid token", TTL_DENY),
           Reply("allow", TRUE, "OK", TTL_ALLOW),
           Reply("allow", TRUE, "LICENSE_EXPIRES_SOON", TTL_ALLOW),
           Reply("deny", FALSE, "License expired", TTL_DENY),
           Reply("deny", FALSE, "Temporarily disabled by admin.", TTL_KILL) }

Outcome(out, allow, reason, ttl) ==
    [ out |-> out, allow |-> allow, reason |-> reason, ttl |-> ttl ]

\* a network error taken for an allow
_post_check_open(r) ==
    IF r.kind = "network_error"
    THEN Outcome("return", TRUE, "Network error", CLIENT_TTL)
    ELSE Outcome("return", r.allow, r.reason, r.ttl)

_post_check(r) ==
    CASE r.kind = "network_error" ->
            Outcome("return", FALSE, "Network error", CLIENT_TTL)
      [] r.kind = "non_200" ->
            Outcome("return", FALSE, "Server error", CLIENT_TTL)
      [] r.kind = "invalid_json" ->
            Outcome("return", FALSE, "Bad JSON from server.", CLIENT_TTL)
      [] r.kind = "not_object" ->
            Outcome("raise", FALSE, "AttributeError", 0)
      [] r.kind = "bad_ttl" ->
            Outcome("raise", FALSE, "ValueError", 0)
      [] r.kind = "no_fields" ->
            Outcome("return", FALSE, "", CLIENT_TTL)
      [] r.kind = "string_allow" ->
            Outcome("return", TRUE, r.reason, r.ttl)
      [] OTHER ->
            Outcome("return", r.allow, r.reason, r.ttl)

\* no run of the client under way; got is the instant the last /check
\* attempt completed at
Idle ==
    [ pc |-> "idle", cfg |-> FAST, t |-> 0, i |-> 0,
      healths |-> 0, checks |-> 0, sleeps |-> 0, seen |-> {}, reply |-> "none",
      got |-> 0,
      last |-> Outcome("return", FALSE, "Timeout", CLIENT_TTL),
      result |-> Outcome("none", FALSE, "", 0) ]

server == <<now, env, licenses, devices, req, resp, hist, inflight>>

\* start = time.monotonic()
Start ==
    /\ client.pc = "idle"
    /\ \E cfg \in Modes : client' = [ Idle EXCEPT !.pc = "warmup", !.cfg = cfg ]
    /\ UNCHANGED server

\* one round of the loop of _warmup
WarmupAttempt ==
    /\ client.pc = "warmup"
    /\ client.i < client.cfg.WARMUP_TRIES
    /\ _deadline_remaining(client.cfg, client.t) > 0
    /\ \E o \in HealthOutcomes, d \in Durations(client.cfg) :
        LET t1 == client.t + d
        IN  client' =
              IF o = "responded"
              THEN [ client EXCEPT !.pc = "check", !.i = 0, !.t = t1,
                                   !.healths = @ + 1 ]
              ELSE [ client EXCEPT !.i = @ + 1,
                                   !.t = t1 + SleepAfter(client.cfg, client.i, t1),
                                   !.healths = @ + 1 ]
    /\ UNCHANGED server

\* _warmup returns without an answer
WarmupEnd ==
    /\ client.pc = "warmup"
    /\ \/ client.i >= client.cfg.WARMUP_TRIES
       \/ _deadline_remaining(client.cfg, client.t) <= 0
    /\ client' = [ client EXCEPT !.pc = "check", !.i = 0 ]
    /\ UNCHANGED server

\* one round of the loop of check_online
CheckAttempt ==
    /\ client.pc = "check"
    /\ client.i < client.cfg.CHECK_TRIES
    /\ _deadline_remaining(client.cfg, client.t) > 0
    /\ \E r \in Replies, d \in Durations(client.cfg) :
        LET t1 == client.t + d
            o == _post_check(r)
            sleep_s == SleepAfter(client.cfg, client.i, t1)
            got == [ client EXCEPT !.t = t1, !.checks = @ + 1,
                                   !.seen = @ \cup {r.kind}, !.reply = r.kind,
                                   !.got = t1 ]
        IN  client' =
              IF o.out = "raise"
              THEN [ got EXCEPT !.pc = "crashed", !.result = o ]
              ELSE IF o.allow
              THEN [ got EXCEPT !.pc = "done", !.result = o ]
              ELSE [ got EXCEPT !.last = o, !.i = @ + 1,
                                !.t = t1 + sleep_s,
                                !.sleeps = IF sleep_s > 0 THEN @ + 1 ELSE @ ]
    /\ UNCHANGED server

\* the loop is over without an allow
Finish ==
    /\ client.pc = "check"
    /\ \/ client.i >= client.cfg.CHECK_TRIES
       \/ _deadline_remaining(client.cfg, client.t) <= 0
    /\ client' =
         [ client EXCEPT
             !.pc = "done",
             !.result =
                IF _deadline_remaining(client.cfg, client.t) <= 0
                THEN Outcome("return", FALSE, "Timed out", CLIENT_TTL)
                ELSE Outcome("return", FALSE, client.last.reason, client.last.ttl) ]
    /\ UNCHANGED server

NextClient ==
    \/ Start
    \/ WarmupAttempt
    \/ WarmupEnd
    \/ CheckAttempt
    \/ Finish

----------------------------------------------------------------------------

(* /check requests served side by side.  A request for a new machine reads
   the store three times: the device lookup, the count, and the insert with
   its commit; the steps of different requests interleave. *)

Workers == 1..MaxInflight

NoFlight == [ pc |-> "idle", lid |-> 0, machine_id |-> "" ]

RaceMachines == { <<"m1">>, <<"m2", " ">>, <<"m3">>, <<"m4">> }

\* the request gets as far as the device lookup and finds no device
ReachesCount(token, machine_id, version) ==
    LET lid == FindLicense(licenses, token)
    IN  /\ ~KillSwitchOn
        /\ ~MachineBlocked(machine_id)
        /\ ~VersionRule(version)
        /\ ~StaticToken(token)
        /\ token # ""
        /\ lid # 0
        /\ ~LicenseUnusable(licenses[lid], now)
        /\ machine_id # ""
        /\ MatchingDevices(devices, lid, machine_id) = {}

\* the answer of worker w
Answer(w, r) ==
    /\ req' = [ NoReq EXCEPT !.op = "check",
                             !.token = licenses[inflight[w].lid].code,
                             !.machine_id = inflight[w].machine_id ]
    /\ resp' = r
    /\ inflight' = [ inflight EXCEPT ![w] = NoFlight ]

\* the handler up to the device lookup; a request that ends before the
\* count is served in one step
RaceLookup(w) ==
    /\ inflight[w].pc = "idle"
    /\ \E rm \in RaceMachines :
        IF ReachesCount("AAAA", Strip(rm), "")
        THEN /\ inflight' =
                    [ inflight EXCEPT
                        ![w] = [ pc |-> "count",
                                 lid |-> FindLicense(licenses, "AAAA"),
                                 machine_id |-> Strip(rm) ] ]
             /\ UNCHANGED <<now, env, licenses, devices, req, resp>>
        ELSE /\ Check("object", <<"AAAA">>, rm, <<>>)
             /\ UNCHANGED inflight
    /\ UNCHANGED <<hist, client>>

\* current_devices = ...count()
RaceCount(w) ==
    /\ inflight[w].pc = "count"
    /\ IF QuotaReached(CountDevices(devices, inflight[w].lid))
       THEN Answer(w, Verdict(FALSE, "Maximum number of devices", TTL_DENY))
       ELSE /\ inflight' = [ inflight EXCEPT ![w].pc = "insert" ]
            /\ UNCHANGED <<req, resp>>
    /\ UNCHANGED <<now, env, licenses, devices, hist, client>>

\* db.add(new_dev); db.commit()
RaceInsert(w) ==
    /\ inflight[w].pc = "insert"
    /\ LET row == NewDevice(inflight[w].lid, inflight[w].machine_id, now)
       IN  IF UniqueViolation(devices, row)
           THEN /\ Answer(w, HttpError("check", 500, "IntegrityError"))
                /\ UNCHANGED devices
           ELSE /\ Answer(w, AllowVerdict(licenses[inflight[w].lid], now))
                /\ devices' = devices (+) SetToBag({row})
    /\ UNCHANGED <<now, env, licenses, hist, client>>

RaceStep ==
    \E w \in Workers : RaceLookup(w) \/ RaceCount(w) \/ RaceInsert(w)

Init ==
    /\ now = 0
    /\ env \in Envs
    /\ licenses = <<>>
    /\ devices = EmptyBag
    /\ req = NoReq
    /\ resp = NoResp
    /\ hist = <<>>
    /\ client = Idle
    /\ inflight = [ w \in 1..MaxInflight |-> NoFlight ]

CheckBad ==
    /\ \E body \in BadBodies : Check(body, <<>>, <<>>, <<>>)
    /\ UNCHANGED <<hist, client, inflight>>

CheckObject(tokens) ==
    /\ \E rt \in tokens, rm \in RawMachines, rv \in RawVersions :
            Check("object", rt, rm, rv)
    /\ UNCHANGED <<hist, client, inflight>>

IssueAny(codes) ==
    /\ \E key \in AdminKeys, draws \in DrawSeqs(codes) : Issue(key, draws)
    /\ UNCHANGED <<hist, client, inflight>>

RenewAny ==
    /\ \E key \in AdminKeys, rc \in RawCodes : Renew(key, rc)
    /\ UNCHANGED <<hist, client, inflight>>

ResetAny ==
    /\ \E key \in AdminKeys, rc \in RawCodes : ResetDevices(key, rc)
    /\ UNCHANGED <<hist, client, inflight>>

ScanAny ==
    /\ \E hook \in [1..Len(licenses) -> WebhookOutcomes] : Scan(hook)
    /\ UNCHANGED <<hist, client, inflight>>

Tick ==
    /\ \E t \in Instants : Advance(t)
    /\ UNCHANGED <<hist, client, inflight>>

\* one license over its whole life
Next ==
    \/ CheckBad
    \/ CheckObject(RawTokens)
    \/ IssueAny({"AAAA"})
    \/ RenewAny
    \/ ResetAny
    \/ ScanAny
    \/ Tick

Spec == Init /\ [][Next]_vars

\* two licenses side by side, all requests served at one instant
NextTwo ==
    \/ CheckBad
    \/ CheckObject(RawTokens)
    \/ IssueAny(Codes)
    \/ RenewAny
    \/ ResetAny
    \/ ScanAny

SpecTwo == Init /\ [][NextTwo]_vars

\* the decision policy under every environment, at one instant; the server
\* is restarted with another environment while the store persists
AllEnvs ==
    { Env(kill, version, blocked, key) :
        kill \in { <<>>, <<"1", " ">> },
        version \in { <<>>, <<"v1">> },
        blocked \in { <<>>, << <<" ", "m3">>, <<" ">> >> },
        key \in { "", "k" } }

Restart ==
    /\ \E e \in AllEnvs : env' = e
    /\ UNCHANGED <<now, licenses, devices, req, resp, hist, client, inflight>>

NextPolicy ==
    \/ CheckBad
    \/ CheckObject(RawTokens)
    \/ IssueAny({"AAAA"})
    \/ Restart

SpecPolicy == Init /\ [][NextPolicy]_vars

\* the last days of a license issued at 0: the instants around 8 and 7 days
\* before expires_at, inside the warning window, and at and after expiry
ExpiryInstants ==
    { Days(LICENSE_DAYS - WARN_DAYS - 1),
      Days(LICENSE_DAYS - WARN_DAYS) - 1,
      Days(LICENSE_DAYS - WARN_DAYS),
      Days(LICENSE_DAYS - WARN_DAYS) + 1,
      Days(LICENSE_DAYS - WARN_DAYS + 1),
      Days(LICENSE_DAYS),
      Days(LICENSE_DAYS) + 1 }

TickExpiry ==
    /\ \E t \in ExpiryInstants : Advance(t)
    /\ UNCHANGED <<hist, client, inflight>>

\* one machine checking in with the first license
CheckExpiry ==
    /\ Check("object", <<"AAAA">>, <<"m1">>, <<>>)
    /\ UNCHANGED <<hist, client, inflight>>

NextExpiry ==
    \/ CheckExpiry
    \/ IssueAny(Codes)
    \/ ScanAny
    \/ TickExpiry

SpecExpiry == Init /\ [][NextExpiry]_vars

\* the scanner run again and again over the last days of a license, each
\* run recorded with its instant
ScanEntry == [ op |-> "scan", at |-> now, resp |-> resp' ]

ScanRecorded ==
    /\ Len(hist) < MaxScans
    /\ \E hook \in [1..Len(licenses) -> WebhookOutcomes] : Scan(hook)
    /\ hist' = Append(hist, ScanEntry)
    /\ UNCHANGED <<client, inflight>>

NextScan ==
    \/ IssueAny({"AAAA"})
    \/ ScanRecorded
    \/ TickExpiry

SpecScan == Init /\ [][NextScan]_vars

----------------------------------------------------------------------------
(* A recorded session of at most MaxSession requests on one license *)

Entry(op, token, machine_id, version) ==
    [ op |-> op, token |-> token, machine_id |-> machine_id,
      version |-> version, resp |-> resp' ]

SessionMachines == { <<"m1">>, <<"m2", " ">>, <<"m3">> }

SessionCheck ==
    /\ Len(hist) < MaxSession
    /\ \E rm \in SessionMachines :
        /\ Check("object", <<"AAAA">>, rm, <<"v1">>)
        /\ hist' = Append(hist, Entry("check", "AAAA", Strip(rm), "v1"))
    /\ UNCHANGED <<client, inflight>>

SessionIssue ==
    /\ Len(hist) < MaxSession
    /\ \E draws \in DrawSeqs({"AAAA"}) :
        /\ Issue("k", draws)
        /\ hist' = Append(hist, Entry("issue", "", "", ""))
    /\ UNCHANGED <<client, inflight>>

SessionReset ==
    /\ Len(hist) < MaxSession
    /\ ResetDevices("k", <<" ", "aaaa">>)
    /\ hist' = Append(hist, Entry("reset_devices", "AAAA", "", ""))
    /\ UNCHANGED <<client, inflight>>

SpecClient == Init /\ [][NextClient]_vars

\* one license, its devices reset now and then, and checks side by side
NextRace ==
    \/ IssueAny({"AAAA"})
    \/ ResetAny
    \/ RaceStep

SpecRace == Init /\ [][NextRace]_vars

NextSession == SessionIssue \/ SessionCheck \/ SessionReset

SpecSession == Init /\ [][NextSession]_vars

----------------------------------------------------------------------------
(* Vocabulary of the properties *)

Ids == 1..Len(licenses)

\* the number of rows of (lid, m) in a device table
Rows(devs, lid, m) ==
    BagCardinality(BagFilter(devs, LAMBDA d : d.license_id = lid /\ d.machine_id = m))

\* the machines registered under a license
Registered(lid) ==
    { d.machine_id : d \in { x \in DOMAIN devices : x.license_id = lid } }

\* the license is active and unexpired
Valid(lid) == licenses[lid].active /\ now < licenses[lid].expires_at

KillActive == env.KILL_SWITCH # <<>> /\ Strip(env.KILL_SWITCH) = "1"

BlockedSet ==
    { Strip(env.BLOCKED_MACHINES[j]) : j \in 1..Len(env.BLOCKED_MACHINES) } \ {""}

RequiredVersion == Strip(env.APP_VERSION)

VersionDiffers(v) == RequiredVersion # "" /\ v # RequiredVersion

\* the required-version rule as the code applies it
VersionRuleFires(v) == VersionDiffers(v) /\ v # ""

\* rules 1 to 3 of the decision policy let the request through: the kill
\* switch is off, the machine is not blocked, and no version is required or
\* the request carries the required one
PassesGate(m, v) ==
    /\ ~KillActive
    /\ m \notin BlockedSet
    /\ ~VersionDiffers(v)

\* this step serves a /check of a JSON object with the token and machine_id
\* of req' and the version v
CheckStep(v) ==
    /\ req'.op = "check"
    /\ now' = now
    /\ \E out \in {check("object", req'.token, req'.machine_id, v)} :
            /\ resp' = out.resp
            /\ licenses' = out.licenses
            /\ devices' = out.devices

Versions == { Strip(rv) : rv \in RawVersions }

QuotaDeny == Verdict(FALSE, "Maximum number of devices", TTL_DENY)

ExpiredDeny == Verdict(FALSE, "License expired", TTL_DENY)

----------------------------------------------------------------------------
(* C1: in every reachable state each license has at most MAX_DEVICES device
   rows. *)
C1_DeviceQuota == \A i \in Ids : CountDevices(devices, i) <= MAX_DEVICES

\* a license at its quota has just refused a further machine
C1_Witness ==
    /\ resp = QuotaDeny
    /\ \E i \in Ids :
        /\ licenses[i].code = req.token
        /\ CountDevices(devices, i) = MAX_DEVICES

(* C2 as amended: with two distinct machines registered under an active,
   unexpired license, a /check with its code that passes rules 1 to 3 (kill
   switch off, machine not blocked, no version required or the required one
   sent) is denied with the quota reason and changes nothing when it comes
   from a third machine, and is allowed when it comes from one of the two
   registered machines. *)
C2_QuotaGate ==
    [][ \A i \in Ids : \A v \in Versions :
          ( /\ req'.op = "check"
            /\ licenses[i].code = req'.token
            /\ Valid(i)
            /\ Cardinality(Registered(i)) = MAX_DEVICES
            /\ req'.machine_id # ""
            /\ PassesGate(req'.machine_id, v)
            /\ CheckStep(v) )
          => IF req'.machine_id \in Registered(i)
             THEN resp'.status = 200 /\ resp'.allow
             ELSE resp' = QuotaDeny /\ devices' = devices /\ licenses' = licenses
      ]_vars

\* the third machine was refused and both registered machines are still there
C2_Witness ==
    /\ resp = QuotaDeny
    /\ \E i \in Ids :
        /\ licenses[i].code = req.token
        /\ Cardinality(Registered(i)) = MAX_DEVICES
        /\ req.machine_id \notin Registered(i)
        /\ PassesGate(req.machine_id, "")

(* C2 as stated: the same for every /check from a third machine or from a
   registered one, whatever rules 1 to 3 say. *)
C2_Original ==
    [][ \A i \in Ids : \A v \in Versions :
          ( /\ req'.op = "check"
            /\ licenses[i].code = req'.token
            /\ Valid(i)
            /\ Cardinality(Registered(i)) = MAX_DEVICES
            /\ req'.machine_id # ""
            /\ CheckStep(v) )
          => IF req'.machine_id \in Registered(i)
             THEN resp'.status = 200 /\ resp'.allow
             ELSE resp' = QuotaDeny /\ devices' = devices /\ licenses' = licenses
      ]_vars

----------------------------------------------------------------------------
FirstDevice(lid, m, t) ==
    SetToBag({[ license_id |-> lid, machine_id |-> m,
                first_seen |-> t, last_seen |-> t ]})

(* C3 as amended: whenever /check allows a request whose token is a license
   code, the store afterwards holds exactly one device row for that license
   and the request's machine_id; and for a valid unexpired license with no
   device, a check-in with a non-empty machine_id that passes rules 1 to 3
   (kill switch off, machine not blocked, no version required or the
   required one sent) is allowed and leaves exactly one device, with
   first_seen = last_seen = now. *)
C3_OneRecord ==
    [][ \A i \in Ids : \A v \in Versions :
          ( /\ req'.op = "check"
            /\ licenses[i].code = req'.token
            /\ CheckStep(v) )
          => /\ resp'.allow => Rows(devices', i, req'.machine_id) = 1
             /\ ( /\ Valid(i)
                  /\ CountDevices(devices, i) = 0
                  /\ req'.machine_id # ""
                  /\ PassesGate(req'.machine_id, v) )
                => /\ resp'.status = 200 /\ resp'.allow
                   /\ DevicesOf(devices', i) = FirstDevice(i, req'.machine_id, now)
      ]_vars

\* a first check-in, later than the issue, was allowed and left one device
C3_Witness ==
    /\ req.op = "check" /\ resp.allow /\ now > 0
    /\ \E i \in Ids :
        /\ licenses[i].code = req.token
        /\ DevicesOf(devices, i) = FirstDevice(i, req.machine_id, now)

(* C3 as stated: the first check-in with a non-empty machine_id is allowed
   whatever rules 1 to 3 say. *)
C3_Original ==
    [][ \A i \in Ids : \A v \in Versions :
          ( /\ req'.op = "check"
            /\ licenses[i].code = req'.token
            /\ CheckStep(v) )
          => /\ resp'.allow => Rows(devices', i, req'.machine_id) = 1
             /\ ( /\ Valid(i)
                  /\ CountDevices(devices, i) = 0
                  /\ req'.machine_id # "" )
                => /\ resp'.status = 200 /\ resp'.allow
                   /\ DevicesOf(devices', i) = FirstDevice(i, req'.machine_id, now)
      ]_vars

(* C4: a /check from a machine already registered under the license never
   adds a device row and never changes the license's device count or the
   device's first_seen; the only change to the device rows is that device's
   last_seen set to now (which an allowed check does), so the pair
   (license_id, machine_id) stays unique. *)
C4_RepeatedCheck ==
    [][ \A i \in Ids :
          ( /\ req'.op = "check"
            /\ now' = now
            /\ licenses[i].code = req'.token
            /\ req'.machine_id \in Registered(i) )
          => LET m == req'.machine_id
                 old == CHOOSE d \in DOMAIN devices :
                            d.license_id = i /\ d.machine_id = m
                 seen == [old EXCEPT !.last_seen = now]
             IN  /\ Rows(devices, i, m) = 1
                 /\ Rows(devices', i, m) = 1
                 /\ BagCardinality(devices') = BagCardinality(devices)
                 /\ CountDevices(devices', i) = CountDevices(devices, i)
                 /\ \A d \in DOMAIN devices' :
                        (d.license_id = i /\ d.machine_id = m)
                            => d.first_seen = old.first_seen
                 /\ \/ devices' = devices
                    \/ devices' = (devices (-) SetToBag({old})) (+) SetToBag({seen})
                 /\ resp'.allow => seen \in DOMAIN devices'
      ]_vars

\* a registered machine checked in again at a later instant
C4_Witness ==
    /\ req.op = "check" /\ resp.allow
    /\ \E d \in DOMAIN devices :
        /\ d.machine_id = req.machine_id
        /\ licenses[d.license_id].code = req.token
        /\ d.first_seen < d.last_seen
        /\ d.last_seen = now

(* C5: a successful /renew leaves the license without devices, active, and
   expiring 365 days after the later of now and its old expires_at, whatever
   the license's state was. *)
C5_Renew ==
    [][ \A i \in Ids :
          ( /\ req'.op = "renew"
            /\ now' = now
            /\ resp'.status = 200
            /\ licenses[i].code = req'.token )
          => /\ CountDevices(devices', i) = 0
             /\ licenses'[i].active
             /\ licenses'[i].expires_at =
                    (IF now > licenses[i].expires_at
                     THEN now ELSE licenses[i].expires_at) + Days(LICENSE_DAYS)
             /\ resp'.old_expires = licenses[i].expires_at
             /\ resp'.new_expires = licenses'[i].expires_at
      ]_vars

\* a license past its expiry was renewed from now
C5_Witness ==
    /\ req.op = "renew" /\ resp.status = 200
    /\ resp.old_expires < now
    /\ resp.new_expires = now + Days(LICENSE_DAYS)
    /\ \E i \in Ids :
        /\ licenses[i].code = req.token
        /\ licenses[i].active
        /\ CountDevices(devices, i) = 0

----------------------------------------------------------------------------
(* The end-to-end session, starting at request k of the record *)

EndToEnd(h, k) ==
    /\ k + 5 <= Len(h)
    /\ h[k].op = "issue" /\ h[k].resp.status = 200
    /\ \A j \in {k + 1, k + 2, k + 3, k + 5} :
            h[j].op = "check" /\ h[j].token = h[k].resp.code
    /\ h[k + 4].op = "reset_devices" /\ h[k + 4].token = h[k].resp.code
    /\ Cardinality({h[k + 1].machine_id, h[k + 2].machine_id,
                    h[k + 3].machine_id}) = 3
    /\ h[k + 5].machine_id = h[k + 3].machine_id

EndToEndResult(h, k) ==
    /\ h[k + 1].resp = Verdict(TRUE, "OK", TTL_ALLOW)
    /\ h[k + 2].resp = Verdict(TRUE, "OK", TTL_ALLOW)
    /\ h[k + 3].resp = QuotaDeny
    /\ h[k + 4].resp.status = 200
    /\ h[k + 4].resp.removed = MAX_DEVICES
    /\ h[k + 5].resp.status = 200 /\ h[k + 5].resp.allow

\* request k reset a license at quota and request k+1 checks in with its code
CheckAfterReset(h, k) ==
    /\ k + 1 <= Len(h)
    /\ h[k].op = "reset_devices" /\ h[k].resp.status = 200
    /\ h[k].resp.removed = MAX_DEVICES
    /\ h[k + 1].op = "check" /\ h[k + 1].token = h[k].token

Gated(e) == e.op = "check" => PassesGate(e.machine_id, e.version)

(* C6 as amended: for a freshly issued license and three distinct machines,
   when every check of the sequence passes rules 1 to 3 (kill switch off,
   machine not blocked, no version required or the required one sent),
   check(m1), check(m2), check(m3), reset_devices, check(m3) yields allow/OK,
   allow/OK, deny (quota), removed_devices = 2, allow; and after a
   reset_devices of a license at quota the next check-in that passes rules 1
   to 3 is allowed. *)
C6_EndToEnd ==
    \A k \in 1..Len(hist) :
        /\ ( /\ EndToEnd(hist, k)
             /\ \A j \in (k + 1)..(k + 5) : Gated(hist[j]) )
           => EndToEndResult(hist, k)
        /\ ( CheckAfterReset(hist, k) /\ Gated(hist[k + 1]) )
           => hist[k + 1].resp.status = 200 /\ hist[k + 1].resp.allow

\* the session was run and ended as the claim says
C6_Witness ==
    \E k \in 1..Len(hist) : EndToEnd(hist, k) /\ EndToEndResult(hist, k)

(* C6 as stated: the same for every such sequence and every check-in after a
   reset, whatever rules 1 to 3 say. *)
C6_Original ==
    \A k \in 1..Len(hist) :
        /\ EndToEnd(hist, k) => EndToEndResult(hist, k)
        /\ CheckAfterReset(hist, k)
           => hist[k + 1].resp.status = 200 /\ hist[k + 1].resp.allow

----------------------------------------------------------------------------
KillDeny(r) == r.status = 200 /\ ~r.allow /\ r.ttl = TTL_KILL

\* this step serves a /check whose body is JSON but no object
NotObjectStep ==
    /\ req'.op = "check" /\ now' = now
    /\ req'.token = "" /\ req'.machine_id = ""
    /\ resp' = check("not_object", "", "", "").resp
    /\ licenses' = licenses /\ devices' = devices

(* C7: while the kill switch is active, every /check with a parseable body,
   a JSON object or any other JSON value, is denied with ttl_seconds = 30,
   for every token and every machine_id, and the store is left unchanged. *)
C7_KillSwitch ==
    [][ ( /\ req'.op = "check"
          /\ KillActive
          /\ NotObjectStep \/ \E v \in Versions : CheckStep(v) )
        => KillDeny(resp') /\ licenses' = licenses /\ devices' = devices
      ]_vars

UpdateDeny == Verdict(FALSE, "Update required.", TTL_DENY)

(* C8: when a required app version is configured, the kill switch is off and
   the machine is not blocked, every /check whose version differs from the
   required one, the empty version included, is denied with "Update
   required." and ttl 3600, whatever the token. *)
C8_VersionRule ==
    [][ \A v \in Versions :
          ( /\ req'.op = "check"
            /\ ~KillActive
            /\ req'.machine_id \notin BlockedSet
            /\ VersionDiffers(v)
            /\ CheckStep(v) )
          => resp' = UpdateDeny
      ]_vars

(* C9: a /check whose token is in the static allow-list is answered allow,
   OK, ttl 60 exactly when the kill switch is off, the machine is not blocked
   and the version rule does not fire, and is denied otherwise; this for
   every machine_id, the empty one included, and without any change to
   licenses or devices. *)
C9_StaticToken ==
    [][ \A v \in Versions :
          ( /\ req'.op = "check"
            /\ req'.token \in ALLOWED_TOKENS
            /\ CheckStep(v) )
          => /\ resp'.status = 200
             /\ IF /\ ~KillActive
                   /\ req'.machine_id \notin BlockedSet
                   /\ ~VersionRuleFires(v)
                THEN resp' = Verdict(TRUE, "OK", TTL_ALLOW)
                ELSE ~resp'.allow
             /\ licenses' = licenses /\ devices' = devices
      ]_vars

\* a static token was allowed without a machine_id, next to a license at quota
C9_Witness ==
    /\ req.op = "check" /\ req.token \in ALLOWED_TOKENS /\ req.machine_id = ""
    /\ resp = Verdict(TRUE, "OK", TTL_ALLOW)
    /\ \E i \in Ids : CountDevices(devices, i) = MAX_DEVICES

----------------------------------------------------------------------------
(* C10 as amended: once a license is inactive or now >= expires_at, every
   /check with its code that passes rules 1 to 3 (kill switch off, machine
   not blocked, no version required or the required one sent) is denied with
   "License expired", also for an empty or unregistered machine_id, leaves
   the license inactive and changes no device; and such a license becomes
   valid again only by a successful /renew of it, whether a check or the
   scanner deactivated it. *)
C10_Expired ==
    [][ /\ \A i \in Ids : \A v \in Versions :
              ( /\ req'.op = "check"
                /\ licenses[i].code = req'.token
                /\ ~Valid(i)
                /\ PassesGate(req'.machine_id, v)
                /\ CheckStep(v) )
              => /\ resp' = ExpiredDeny
                 /\ ~licenses'[i].active
                 /\ licenses'[i].expires_at = licenses[i].expires_at
                 /\ devices' = devices
        /\ \A i \in Ids :
              (~Valid(i) /\ licenses'[i].active /\ now' < licenses'[i].expires_at)
              => /\ req'.op = "renew" /\ resp'.status = 200
                 /\ req'.token = licenses[i].code
      ]_vars

\* a check without machine_id was refused for an inactive, expired license
C10_Witness ==
    /\ req.op = "check" /\ resp = ExpiredDeny /\ req.machine_id = ""
    /\ \E i \in Ids :
        /\ licenses[i].code = req.token
        /\ ~licenses[i].active
        /\ now >= licenses[i].expires_at

(* C10 as stated: the same for every /check with its code, whatever rules 1
   to 3 say. *)
C10_Original ==
    [][ \A i \in Ids : \A v \in Versions :
          ( /\ req'.op = "check"
            /\ licenses[i].code = req'.token
            /\ ~Valid(i)
            /\ CheckStep(v) )
          => /\ resp' = ExpiredDeny
             /\ ~licenses'[i].active
             /\ licenses'[i].expires_at = licenses[i].expires_at
             /\ devices' = devices
      ]_vars

----------------------------------------------------------------------------
(* C11: for a /check allowed through the license path, the reason is
   LICENSE_EXPIRES_SOON if and only if expires_at - now <= 7 days, and OK
   otherwise; the ttl is 60 in both cases. *)
C11_ExpiresSoon ==
    [][ \A i \in Ids : \A v \in Versions :
          ( /\ req'.op = "check"
            /\ licenses[i].code = req'.token
            /\ CheckStep(v)
            /\ resp'.allow )
          => /\ resp'.ttl = TTL_ALLOW
             /\ resp'.reason =
                    IF licenses[i].expires_at - now <= Days(WARN_DAYS)
                    THEN "LICENSE_EXPIRES_SOON" ELSE "OK"
      ]_vars

(* C12: after a scan has returned, no license with expires_at <= now is
   active, the returned expired counter is the number of licenses the scan
   switched from active to inactive, and no license with expires_at > now
   has its active flag, its expires_at or its devices changed; the scan
   changes no expires_at and no device at all. *)
C12_Scan ==
    [][ (req'.op = "scan" /\ now' = now /\ resp'.status = 200 /\ ScanAny)
        => /\ Len(licenses') = Len(licenses)
           /\ \A i \in Ids :
                /\ licenses[i].expires_at <= now => ~licenses'[i].active
                /\ licenses[i].expires_at > now => licenses'[i] = licenses[i]
                /\ licenses'[i].expires_at = licenses[i].expires_at
                /\ licenses'[i].code = licenses[i].code
           /\ resp'.expired =
                Cardinality({ i \in Ids : licenses[i].active /\ ~licenses'[i].active })
           /\ devices' = devices
      ]_vars

\* a scan deactivated one license at its expires_at and left a later one
\* alone
C12_Witness ==
    /\ req.op = "scan" /\ resp.status = 200 /\ resp.expired = 1
    /\ \E i, j \in Ids :
        /\ licenses[i].expires_at = now /\ ~licenses[i].active
        /\ licenses[j].expires_at > now /\ licenses[j].active

\* the runs of the record that sent expires_soon for license i
SoonRuns(i) ==
    { k \in 1..Len(hist) : <<i, "expires_soon">> \in hist[k].resp.events }

(* C13: over a sequence of scans with no renewal in between, the
   expires_soon notification of a license is sent only by a scan whose UTC
   date is exactly 7 days before the UTC date of expires_at, and not more
   than once for the same license. *)
C13_SoonOnce ==
    \A i \in Ids :
        /\ \A k \in SoonRuns(i) :
                DateOf(hist[k].at) + WARN_DAYS = DateOf(licenses[i].expires_at)
        /\ Cardinality(SoonRuns(i)) <= 1

----------------------------------------------------------------------------
\* this step is a /check attempt of the client that got the reply kind k
Received(k) == client'.checks = client.checks + 1 /\ client'.reply = k

(* C14: in check_online the first structurally successful /check response
   (HTTP 200 with a verdict) ends the attempt loop whether it says allow or
   deny: the attempt that receives it returns without a backoff sleep, and
   after a clean deny no further /check request is sent and no sleep is
   taken, in every mode. *)
C14_DenyEndsLoop ==
    [][ /\ (Received("allow") \/ Received("deny"))
            => /\ client'.pc = "done"
               /\ client'.sleeps = client.sleeps
        /\ "deny" \in client.seen
            => /\ client'.checks = client.checks
               /\ client'.sleeps = client.sleeps
      ]_vars

(* C15: check_online is fail-closed: it returns allow = true only if some
   /check attempt received an HTTP 200 response whose body carried a truthy
   allow; after any combination of network errors, non-200 responses,
   warm-up outcomes and deadline exhaustion without such a response the
   result is allow = false. *)
C15_FailClosed ==
    (client.pc = "done" /\ client.result.allow)
        => client.seen \cap { "allow", "string_allow" } # {}

\* an allow was returned by the second attempt, after a network error and a
\* warm-up without answer
C15_Witness ==
    /\ client.pc = "done" /\ client.result.allow
    /\ "network_error" \in client.seen
    /\ client.healths = client.cfg.WARMUP_TRIES

\* all the backoff sleeps a run can take
BackoffSlack(cfg) ==
    LET Sum(n) == cfg.BACKOFF * (Pow2(n) - 1)
    IN  Sum(cfg.WARMUP_TRIES) + Sum(cfg.CHECK_TRIES)

(* C16: for every server behaviour check_online sends at most WARMUP_TRIES
   health requests and at most CHECK_TRIES check requests, and has returned
   no later than TOTAL_DEADLINE plus backoff slack after it started. *)
C16_Bounded ==
    /\ client.healths <= client.cfg.WARMUP_TRIES
    /\ client.checks <= client.cfg.CHECK_TRIES
    /\ client.pc = "done"
        => client.t <= client.cfg.TOTAL_DEADLINE + BackoffSlack(client.cfg)

\* the failures of an attempt: no response, a status other than 200, and the
\* malformed bodies
Failures ==
    { "network_error", "non_200", "invalid_json", "not_object", "bad_ttl",
      "no_fields", "string_allow" }

(* C17: in the client a network error, a non-200 response and a malformed
   response body (invalid JSON, JSON that is no object, missing or wrongly
   typed fields) each consume the attempt and leave the loop running, and
   none of them yields an allow or an exception out of check_online. *)
C17_Retryable ==
    [][ /\ \A k \in Failures :
              Received(k) => /\ client'.pc = "check"
                             /\ client'.i = client.i + 1
        /\ client'.pc # "crashed"
        /\ (client'.pc = "done" /\ client'.result.allow)
              => "allow" \in client'.seen
      ]_vars

----------------------------------------------------------------------------
\* the admin_key differs from the secret of the server, or no secret is set
KeyRefused(key) == env.ADMIN_API_KEY = "" \/ key # env.ADMIN_API_KEY

\* this step serves an admin request sent with this key
AdminStep(key) ==
    /\ req'.op \in { "issue", "renew", "reset_devices" }
    /\ now' = now
    /\ \/ \E draws \in DrawSeqs(Codes) : Issue(key, draws)
       \/ \E rc \in RawCodes : Renew(key, rc)
       \/ \E rc \in RawCodes : ResetDevices(key, rc)

(* C18: every /issue, /renew and /reset_devices request whose admin_key
   differs from the secret of the server, or that arrives when no secret is
   configured (an empty admin_key against an empty secret included), is
   rejected with 403 and leaves licenses and devices unchanged. *)
C18_AdminKey ==
    [][ \A key \in AdminKeys :
          (KeyRefused(key) /\ AdminStep(key))
          => /\ resp'.status = 403
             /\ licenses' = licenses
             /\ devices' = devices
      ]_vars

\* a reset_devices was refused for a license that has devices
C18_Witness ==
    /\ req.op = "reset_devices" /\ resp.status = 403
    /\ \E i \in Ids : licenses[i].code = req.token /\ CountDevices(devices, i) > 0

(* C19: /check always answers with a structured verdict and never with an
   HTTP error: a body that cannot be parsed gives a deny with ttl 5 and no
   store change, and so does any other body without fields. *)
C19_AlwaysVerdict ==
    [][ /\ (req'.op = "check" /\ now' = now /\ env' = env
                /\ (CheckBad \/ CheckObject(RawTokens)))
            => resp'.status = 200
        /\ (req'.op = "check" /\ now' = now /\ env' = env /\ CheckBad)
            => /\ ~resp'.allow /\ resp'.ttl = TTL_BAD_JSON
               /\ licenses' = licenses /\ devices' = devices
      ]_vars

CodesOf(lics) == { lics[i].code : i \in 1..Len(lics) }

(* C20: license codes are unique in every reachable state; an accepted
   /issue stores the first of its at most 10 generated codes that no license
   has, and when all 10 collide it ends in an error and leaves the store
   unchanged. *)
C20_UniqueCodes ==
    [][ /\ \A i, j \in 1..Len(licenses') :
              i # j => licenses'[i].code # licenses'[j].code
        /\ (req'.op = "issue" /\ now' = now)
            => \A key \in AdminKeys : \A draws \in DrawSeqs(Codes) :
                 (~KeyRefused(key) /\ Issue(key, draws))
                 => LET free == { n \in 1..CODE_TRIES :
                                    draws[n] \notin CodesOf(licenses) }
                        first == CHOOSE n \in free : \A m \in free : n <= m
                    IN  IF free = {}
                        THEN /\ resp'.status = 500
                             /\ licenses' = licenses /\ devices' = devices
                        ELSE /\ resp'.status = 200
                             /\ Len(licenses') = Len(licenses) + 1
                             /\ licenses'[Len(licenses')].code = draws[first]
                             /\ resp'.code = draws[first]
                             /\ \A i \in Ids : licenses'[i] = licenses[i]
      ]_vars

\* with both codes taken, an /issue ran out of tries
C20_Witness ==
    /\ req.op = "issue" /\ resp.status = 500
    /\ CodesOf(licenses) = Codes

----------------------------------------------------------------------------
\* the requests that have counted the devices of license i and not yet
\* inserted
Pending(i) ==
    { w \in Workers : inflight[w].pc = "insert" /\ inflight[w].lid = i }

(* C21 as amended: when /check requests from distinct unregistered machines
   for the same license interleave between the device count and the insert,
   the license can get more than MAX_DEVICES device records, but never more
   than MAX_DEVICES - 1 plus the number of requests served at the same time;
   and the records above the quota are there only after such an
   interleaving: counted together with the requests that are between count
   and insert, the devices of a license stay within that bound. *)
C21_RaceQuota ==
    \A i \in Ids :
        CountDevices(devices, i) + Cardinality(Pending(i))
            <= MAX_DEVICES - 1 + MaxInflight

\* two requests raced for the last slot and both were registered
C21_Witness ==
    /\ \A w \in Workers : inflight[w].pc = "idle"
    /\ req.op = "check" /\ resp.allow
    /\ \E i \in Ids : CountDevices(devices, i) = MAX_DEVICES + 1

(* C21 as stated: the quota of MAX_DEVICES device records also holds when
   the requests interleave between the count and the insert. *)
C21_Original ==
    \A i \in Ids :
        (\A w \in Workers : inflight[w].pc # "insert")
            => CountDevices(devices, i) <= MAX_DEVICES

\* this step ends a /check whose insert the unique constraint refused
InsertRejected(w) ==
    /\ inflight[w].pc = "insert"
    /\ inflight'[w].pc = "idle"
    /\ Rows(devices, inflight[w].lid, inflight[w].machine_id) > 0

(* C27: when two /check requests from the same unregistered machine for the
   same license interleave between the device lookup and the insert, at most
   one device record of (license_id, machine_id) exists afterwards, and the
   request whose insert is rejected does not return an allow verdict. *)
C27_SameMachine ==
    [][ /\ \A i \in 1..Len(licenses') : \A d \in DOMAIN devices' :
              Rows(devices', i, d.machine_id) <= 1
        /\ \A w \in Workers :
              InsertRejected(w)
              => /\ ~resp'.allow
                 /\ devices' = devices
      ]_vars

\* the second of two requests of one machine was refused at its insert
C27_Witness ==
    /\ req.op = "check" /\ resp.status = 500 /\ resp.reason = "IntegrityError"
    /\ \E i \in Ids : Rows(devices, i, req.machine_id) = 1

----------------------------------------------------------------------------
\* the device rows other than the one of (lid, m)
OtherRows(devs, lid, m) ==
    BagFilter(devs, LAMBDA d : ~(d.license_id = lid /\ d.machine_id = m))

(* C22: every /check that returns a deny leaves the store unchanged, except
   the "License expired" deny, which changes only the active flag of the
   matched license, from true to false; an allow changes only the one device
   record of (license, machine_id); no /check writes license fields and
   device rows in the same request. *)
C22_Frame ==
    [][ (req'.op = "check" /\ now' = now)
        => LET lid == FindLicense(licenses, req'.token)
           IN  /\ (resp'.status = 200 /\ ~resp'.allow)
                    => /\ devices' = devices
                       /\ \/ licenses' = licenses
                          \/ /\ resp' = ExpiredDeny
                             /\ lid # 0
                             /\ licenses[lid].active
                             /\ licenses' = [licenses EXCEPT ![lid].active = FALSE]
               /\ resp'.allow
                    => /\ licenses' = licenses
                       /\ OtherRows(devices', lid, req'.machine_id)
                            = OtherRows(devices, lid, req'.machine_id)
                       /\ Rows(devices', lid, req'.machine_id) <= 1
               /\ licenses' = licenses \/ devices' = devices
      ]_vars

\* a check of a registered machine was refused for expiry, the license is
\* inactive and both its devices are still there
C22_Witness ==
    /\ req.op = "check" /\ resp = ExpiredDeny
    /\ \E i \in Ids :
        /\ licenses[i].code = req.token
        /\ ~licenses[i].active
        /\ req.machine_id \in Registered(i)
        /\ CountDevices(devices, i) = MAX_DEVICES

----------------------------------------------------------------------------
(* C25: a successful /reset_devices deletes exactly the device records of
   the named license and reports their number as removed_devices; it leaves
   that license's expires_at and active flag and every other license's
   devices unchanged; and /renew and /reset_devices with an accepted admin
   key on a license code that no license has return 404 and change
   nothing. *)
C25_Reset ==
    [][ (req'.op \in { "renew", "reset_devices" } /\ now' = now)
        => LET lid == FindLicense(licenses, req'.token)
           IN  /\ (req'.op = "reset_devices" /\ resp'.status = 200)
                    => /\ lid # 0
                       /\ CountDevices(devices', lid) = 0
                       /\ \A i \in Ids \ {lid} :
                            DevicesOf(devices', i) = DevicesOf(devices, i)
                       /\ BagCardinality(devices')
                            = BagCardinality(devices) - CountDevices(devices, lid)
                       /\ resp'.removed = CountDevices(devices, lid)
                       /\ licenses' = licenses
               /\ (lid = 0 /\ req'.token # "")
                    => /\ licenses' = licenses
                       /\ devices' = devices
                       /\ \A key \in AdminKeys :
                            (~KeyRefused(key) /\ AdminStep(key))
                                => resp'.status = 404
      ]_vars

\* a reset removed the two devices of one license next to another license
\* that keeps its device
C25_Witness ==
    /\ req.op = "reset_devices" /\ resp.status = 200
    /\ resp.removed = MAX_DEVICES
    /\ \E i, j \in Ids :
        /\ licenses[i].code = req.token
        /\ CountDevices(devices, i) = 0
        /\ CountDevices(devices, j) > 0

----------------------------------------------------------------------------
(* C26: the active flag of a license changes from false to true only through
   a successful /renew of it; /check and scan only ever change it from true
   to false, and only for a license with now >= expires_at; neither of them
   changes an expires_at or deletes a license. *)
C26_ActiveFlag ==
    [][ /\ \A i \in Ids :
              (~licenses[i].active /\ licenses'[i].active)
              => /\ req'.op = "renew" /\ resp'.status = 200
                 /\ req'.token = licenses[i].code
        /\ (req'.op \in { "check", "scan" } /\ now' = now)
            => /\ Len(licenses') = Len(licenses)
               /\ \A i \in Ids :
                    /\ licenses'[i].expires_at = licenses[i].expires_at
                    /\ licenses'[i].code = licenses[i].code
                    /\ licenses'[i].active # licenses[i].active
                        => licenses[i].active /\ now >= licenses[i].expires_at
      ]_vars

\* a license was renewed at the instant of its expires_at and is active
C26_Witness ==
    /\ req.op = "renew" /\ resp.status = 200
    /\ resp.old_expires = now
    /\ \E i \in Ids : licenses[i].code = req.token /\ licenses[i].active

----------------------------------------------------------------------------
(* C24: a failure to deliver a webhook notification during a scan, of any
   kind, never propagates out of the scan, never stops the remaining
   candidates from being processed, and never prevents the deactivations of
   that scan from being committed. *)
C24_BestEffort ==
    [][ (req'.op = "scan" /\ now' = now)
        => /\ resp'.status = 200
           /\ resp'.events = ScanEvents(licenses, now)
           /\ \A i \in Ids :
                (licenses[i].active /\ licenses[i].expires_at <= now)
                    => ~licenses'[i].active
      ]_vars

----------------------------------------------------------------------------
\* the last /check attempt of the run got a clean deny of the server before
\* the deadline ran out
CompletedInTime ==
    /\ client.checks > 0
    /\ client.reply = "deny"
    /\ client.got < client.cfg.TOTAL_DEADLINE

(* C23: when the last /check attempt completed before the deadline was
   exhausted and the server answered it with a clean deny, check_online
   returns the outcome of that attempt: the returned reason and ttl are the
   server's, and not "Timed out" with ttl 5, which is returned only when no
   attempt obtained a response before the deadline ran out. *)
C23_LastOutcome ==
    (client.pc = "done" /\ ~client.result.allow /\ CompletedInTime)
        => /\ client.result.reason = client.last.reason
           /\ client.result.ttl = client.last.ttl
           /\ client.result.reason # "Timed out"

====
